---- MODULE Spec2Model ----
(***************************************************************************)
(* Model of remove_fragments_from_graphql_query.py: the pipeline that      *)
(* builds the fragment table, strips the fragment definitions and inlines  *)
(* the fragment references of a GraphQL document.                          *)
(*                                                                         *)
(* A text is a sequence of one-character strings.  Offsets are 0-based, as *)
(* in the source, so that the index arithmetic of the source (end_index+1, *)
(* search_result+1, negative slice bounds) is modelled literally.          *)
(***************************************************************************)
EXTENDS Integers, Sequences, FiniteSets, TLC

(***************************************************************************)
(* Character classes of the regular expressions of the source.             *)
(***************************************************************************)
Lower ==
  {"a","b","c","d","e","f","g","h","i","j","k","l","m",
   "n","o","p","q","r","s","t","u","v","w","x","y","z"}

Upper ==
  {"A","B","C","D","E","F","G","H","I","J","K","L","M",
   "N","O","P","Q","R","S","T","U","V","W","X","Y","Z"}

Digit ==
  {"0","1","2","3","4","5","6","7","8","9"}

\* [A-Za-z]
Letter ==
  Lower \cup Upper

\* [A-Za-z0-9]
Alnum ==
  Letter \cup Digit

\* \w, the class that decides the word boundary \b
WordChar ==
  Alnum \cup {"_"}

\* \s, and the characters str.strip() removes
Space ==
  {" ", "\n", "\t", "\r"}

(***************************************************************************)
(* Python string primitives: s[i], s[a:b], s.find(sub, start, end).        *)
(***************************************************************************)
Max(a, b) ==
  IF a >= b THEN a ELSE b

Min(a, b) ==
  IF a <= b THEN a ELSE b

\* s[i] for 0 <= i < len(s)
At(s, i) ==
  s[i + 1]

\* a slice bound as Python normalises it: negative counts from the end,
\* and the result is clamped to 0 .. len(s)
Clamp(s, k) ==
  IF k < 0 THEN Max(Len(s) + k, 0) ELSE Min(k, Len(s))

\* s[a:b]
Slice(s, a, b) ==
  LET lo == Clamp(s, a)
      hi == Clamp(s, b)
  IN  IF hi <= lo THEN << >> ELSE SubSeq(s, lo + 1, hi)

\* s[a:]
SliceFrom(s, a) ==
  Slice(s, a, Len(s))

\* s[:b]
SliceTo(s, b) ==
  Slice(s, 0, b)

\* s[i:i+len(sub)] == sub, for i >= 0
MatchAt(s, sub, i) ==
  /\ i + Len(sub) <= Len(s)
  /\ \A k \in 1..Len(sub) : s[i + k] = sub[k]

\* s.find(sub, start, end): the lowest offset in s[start:end] at which sub
\* occurs, or -1
Find(s, sub, start, end) ==
  LET lo   == Clamp(s, start)
      hi   == Clamp(s, end)
      hits == {i \in lo..(hi - Len(sub)) : MatchAt(s, sub, i)}
  IN  IF hits = {} THEN -1
      ELSE CHOOSE i \in hits : \A j \in hits : i <= j

(***************************************************************************)
(* The literals the source searches for.                                   *)
(***************************************************************************)
\* "fragment " of "fragment {}".format(fragment_name) and of the lookbehind
KwFragment ==
  <<"f","r","a","g","m","e","n","t"," ">>

\* " on", the lookahead of fragment_def_regex
LookaheadOn ==
  <<" ","o","n">>

\* " on ", the typecast search of _get_fragment_and_body_indices
SpacedOn ==
  <<" ","o","n"," ">>

\* "...", the spread of a fragment reference
Dots ==
  <<".",".",".">>

\* "... ", the prefix _get_fragment_body gives a typecast body
DotsSpace ==
  <<".",".","."," ">>

\* the value of a local that was never assigned
Unbound ==
  -1

(***************************************************************************)
(* _find_fragment_names: re.findall(r"(?<=fragment )[A-Za-z0-9]+(?= on)")  *)
(***************************************************************************)
RECURSIVE AlnumRunEnd(_, _)
\* the offset one past the longest run of [A-Za-z0-9] that starts at i
AlnumRunEnd(s, i) ==
  IF i < Len(s) /\ At(s, i) \in Alnum THEN AlnumRunEnd(s, i + 1) ELSE i

\* the regex matches at offset i: "fragment " ends at i, a non-empty run of
\* [A-Za-z0-9] starts at i, and " on" follows the run (a shorter run is
\* followed by an alphanumeric, never by the space of " on")
NameMatchAt(s, i) ==
  /\ i >= Len(KwFragment)
  /\ MatchAt(s, KwFragment, i - Len(KwFragment))
  /\ AlnumRunEnd(s, i) > i
  /\ MatchAt(s, LookaheadOn, AlnumRunEnd(s, i))

\* the least element of a non-empty set of offsets
Least(offsets) ==
  CHOOSE i \in offsets : \A j \in offsets : i <= j

RECURSIVE FindNamesFrom(_, _)
\* findall from offset i: the leftmost match at or after i, then the search
\* resumes after that match
FindNamesFrom(s, i) ==
  LET matches == {m \in i..(Len(s) - 1) : NameMatchAt(s, m)}
  IN  IF matches = {} THEN << >>
      ELSE << Slice(s, Least(matches), AlnumRunEnd(s, Least(matches))) >>
             \o FindNamesFrom(s, AlnumRunEnd(s, Least(matches)))

find_fragment_names(query) ==
  FindNamesFrom(query, 0)

(***************************************************************************)
(* _get_fragment_and_body_indices                                          *)
(***************************************************************************)
RECURSIVE ScanBracesToEnd(_, _, _)
\* the scan with end_index bound to the last offset of the text when the
\* loop runs off the end
ScanBracesToEnd(query, i, curly_brace_count) ==
  LET braces == {k \in i..(Len(query) - 1) : At(query, k) \in {"{", "}"}}
  IN  IF braces = {} THEN Len(query) - 1
      ELSE LET k == CHOOSE x \in braces : \A y \in braces : x <= y
               c == IF At(query, k) = "{" THEN curly_brace_count + 1
                    ELSE curly_brace_count - 1
           IN  IF c = 0 THEN k ELSE ScanBracesToEnd(query, k + 1, c)

RECURSIVE ScanBraces(_, _, _)
\* the for loop of lines 50-57: the first offset i >= body_start_index at
\* which curly_brace_count returns to 0; Unbound when the loop runs off
\* the end of the text without assigning end_index
\* (an iteration on a character that is no brace changes nothing, so the
\* scan steps from brace to brace)
ScanBraces(query, i, curly_brace_count) ==
  LET braces == {k \in i..(Len(query) - 1) : At(query, k) \in {"{", "}"}}
  IN  IF braces = {} THEN Unbound
      ELSE LET k == Least(braces)
               c == IF At(query, k) = "{" THEN curly_brace_count + 1
                    ELSE curly_brace_count - 1
           IN  IF c = 0 THEN k ELSE ScanBraces(query, k + 1, c)

\* FragmentInfo, with raised = TRUE when the call ends in UnboundLocalError
\* (end_index read at line 65 or line 68 before any assignment) and so
\* returns no FragmentInfo at all
get_fragment_and_body_indices(fragment_name, query) ==
  LET start_index      == Find(query, KwFragment \o fragment_name,
                               0, Len(query))
      body_start_index == Find(query, <<"{">>, start_index, Len(query)) + 1
      end_index        == ScanBraces(query, body_start_index, 1)
      search_result    == Find(query, SpacedOn, start_index,
                               body_start_index)
  IN  IF end_index = Unbound
      THEN [raised |-> TRUE, start_index |-> start_index,
            body_start_index |-> body_start_index,
            end_index |-> Unbound, is_typecast |-> FALSE]
      ELSE IF search_result # -1
      THEN [raised |-> FALSE, start_index |-> start_index,
            body_start_index |-> search_result + 1,
            end_index |-> end_index + 1, is_typecast |-> TRUE]
      ELSE [raised |-> FALSE, start_index |-> start_index,
            body_start_index |-> body_start_index,
            end_index |-> end_index, is_typecast |-> FALSE]

\* _get_fragment_body, for a call of get_fragment_and_body_indices that
\* returned
get_fragment_body(fragment_name, query) ==
  LET fragment_info == get_fragment_and_body_indices(fragment_name, query)
      fragment_body == Slice(query, fragment_info.body_start_index,
                             fragment_info.end_index)
  IN  IF fragment_info.is_typecast THEN DotsSpace \o fragment_body
      ELSE fragment_body

\* one iteration of the loop of _remove_fragment_definitions, for a call of
\* get_fragment_and_body_indices that returned
remove_fragment_definition(fragment_name, query) ==
  LET fragment_info == get_fragment_and_body_indices(fragment_name, query)
  IN  SliceTo(query, fragment_info.start_index)
        \o SliceFrom(query, fragment_info.end_index + 1)

(***************************************************************************)
(* _replace_fragment_references_with_fragment_bodies, one table entry:     *)
(* re.sub(r"\.\.\.{}\b".format(name), body, query)                         *)
(***************************************************************************)
\* the match of r"\.\.\.{}".format(name), the regex without its \b
ReferenceMatchAtNoBoundary(s, name, i) ==
  MatchAt(s, Dots \o name, i)

\* the regex matches at offset i: "..." and the name, then a word boundary
\* (the name ends in a word character, so the boundary is the end of the
\* text or a character outside \w)
ReferenceMatchAt(s, name, i) ==
  LET e == i + Len(Dots) + Len(name)
  IN  /\ MatchAt(s, Dots \o name, i)
      /\ (e = Len(s) \/ At(s, e) \notin WordChar)

RECURSIVE SubFrom(_, _, _, _)
\* re.sub from offset i: the text up to the leftmost match at or after i is
\* copied, the match is replaced by body, and the search resumes after the
\* match
SubFrom(s, name, body, i) ==
  LET matches == {m \in i..(Len(s) - 1) : ReferenceMatchAt(s, name, m)}
  IN  IF matches = {} THEN SliceFrom(s, i)
      ELSE Slice(s, i, Least(matches)) \o body
             \o SubFrom(s, name, body,
                        Least(matches) + Len(Dots) + Len(name))

replace_fragment_references(query, name, body) ==
  SubFrom(query, name, body, 0)

\* re.findall(r"\.\.\.[A-Za-z]+", query) is not empty
fragment_references_remain(query) ==
  \E i \in 0..(Len(query) - 1) :
     /\ MatchAt(query, Dots, i)
     /\ i + Len(Dots) < Len(query)
     /\ At(query, i + Len(Dots)) \in Letter

(***************************************************************************)
(* remove_empty_lines: re.sub(r"\n\s*\n", "\n", string), and str.strip()   *)
(***************************************************************************)
RECURSIVE SpaceRunEnd(_, _)
\* the offset one past the longest run of \s that starts at i
SpaceRunEnd(s, i) ==
  IF i < Len(s) /\ At(s, i) \in Space THEN SpaceRunEnd(s, i + 1) ELSE i

\* the offset of the "\n" that ends the match of \n\s*\n starting at i, or
\* -1: \s* is greedy, so the match ends at the last "\n" of the run of
\* white space that follows s[i]
EmptyLinesMatchEnd(s, i) ==
  LET ends == {k \in (i + 1)..(SpaceRunEnd(s, i + 1) - 1) : At(s, k) = "\n"}
  IN  IF At(s, i) # "\n" \/ ends = {} THEN -1
      ELSE CHOOSE k \in ends : \A j \in ends : j <= k

RECURSIVE RemoveEmptyLinesFrom(_, _)
\* re.sub from offset i, as in SubFrom
RemoveEmptyLinesFrom(s, i) ==
  LET matches == {m \in i..(Len(s) - 1) : EmptyLinesMatchEnd(s, m) # -1}
  IN  IF matches = {} THEN SliceFrom(s, i)
      ELSE Slice(s, i, Least(matches)) \o <<"\n">>
             \o RemoveEmptyLinesFrom(s,
                   EmptyLinesMatchEnd(s, Least(matches)) + 1)

remove_empty_lines(string) ==
  RemoveEmptyLinesFrom(string, 0)

RECURSIVE LStrip(_)
LStrip(s) ==
  IF s # << >> /\ Head(s) \in Space THEN LStrip(Tail(s)) ELSE s

RECURSIVE RStrip(_)
RStrip(s) ==
  IF s # << >> /\ s[Len(s)] \in Space
  THEN RStrip(SubSeq(s, 1, Len(s) - 1)) ELSE s

\* str.lstrip() in the place of str.strip()
StripLeadingOnly(s) ==
  LStrip(s)

\* str.strip()
Strip(s) ==
  RStrip(LStrip(s))

(***************************************************************************)
(* The input documents: every concatenation of at most MaxSegments of the  *)
(* segments below.                                                         *)
(***************************************************************************)
\* a query that references A, followed by a blank line
QueryA ==
  <<"{"," ",".",".",".","A"," ","}","\n","\n">>

\* a query that references Ab and A
QueryAbA ==
  <<"{"," ",".",".",".","A","b"," ",".",".",".","A"," ","}">>

\* fragment A, with nothing after its closing brace
FragmentA ==
  <<"f","r","a","g","m","e","n","t"," ","A"," ","o","n"," ","T"," ","{"," ",
    "a"," ","}">>

\* fragment Ab, whose name extends the name A and whose body references A
FragmentAb ==
  <<"\n","f","r","a","g","m","e","n","t"," ","A","b"," ","o","n"," ","U",
    " ","{"," ",".",".",".","A"," ","}","\n">>

\* fragment Ac, whose name extends the name A
FragmentAc ==
  <<"\n","f","r","a","g","m","e","n","t"," ","A","c"," ","o","n"," ","U",
    " ","{"," ","c"," ","}","\n">>

\* a query that references B, and fragment B, whose body references A
NestB ==
  <<"\n","{"," ",".",".",".","B"," ","}","\n","f","r","a","g","m","e","n",
    "t"," ","B"," ","o","n"," ","V"," ","{"," ",".",".",".","A"," ","b"," ",
    "}","\n">>

\* a query that references P, and fragment P with a line break after its `on`
FragmentP ==
  <<"{"," ",".",".",".","P"," ","}","f","r","a","g","m","e","n","t"," ","P",
    " ","o","n","\n","T"," ","{"," ","p"," ","}"," ">>

\* a query that references _x, and fragment _x, whose name starts with an
\* underscore
FragmentX ==
  <<"{"," ",".",".",".","_","x"," ","}","\n"," ","\n","f","r","a","g","m",
    "e","n","t"," ","_","x"," ","o","n"," ","T"," ","{"," ","a"," ","}",
    "\n">>

\* a query that references 1x, and fragment 1x, whose name starts with a
\* digit
Fragment1x ==
  <<"{"," ",".",".",".","1","x"," ","}","\n","f","r","a","g","m","e","n",
    "t"," ","1","x"," ","o","n"," ","T"," ","{"," ","a"," ","}","\n">>

\* a query without fragments, followed by a blank line
QueryQ ==
  <<" ","{"," ","q"," ","}","\n"," ","\n">>

\* fragment C, whose brace is never closed
FragmentC ==
  <<"f","r","a","g","m","e","n","t"," ","C"," ","o","n"," ","T"," ","{"," ",
    "c"," ">>

Segments ==
  <<QueryA, QueryAbA, FragmentA, FragmentAb, FragmentAc,
    NestB, FragmentP, FragmentX, Fragment1x, QueryQ, FragmentC>>

\* the longest document is made of MaxSegments segments
MaxSegments ==
  3

\* a reference pass is not started on a text longer than MaxTextLen
MaxTextLen ==
  120

RECURSIVE Concat(_)
Concat(segs) ==
  IF segs = << >> THEN << >> ELSE Head(segs) \o Concat(Tail(segs))

Documents ==
  UNION {{Concat([k \in 1..n |-> Segments[choice[k]]]) :
            choice \in [1..n -> 1..Len(Segments)]} : n \in 0..MaxSegments}

(***************************************************************************)
(* The state of one run of remove_fragments_from_query.                    *)
(***************************************************************************)
VARIABLES
  query,             \* the text read from the input file
  fragment_names,    \* the list _find_fragment_names returned
  keys,              \* the keys of fragment_mapping, in insertion order
  fragment_mapping,  \* the dict of fragment names to fragment bodies
  text,              \* the text being rewritten after the table is built
  n,                 \* the position of the running for loop in its list
  pc,                \* the statement the run is at
  result,            \* the string remove_fragments_from_query returned
  run                \* 1, or 2 when the input is the output of run 1

vars ==
  <<query, fragment_names, keys, fragment_mapping, text, n, pc, result, run>>

\* the run has not built anything yet
Fresh ==
  /\ fragment_names = << >>
  /\ keys = << >>
  /\ fragment_mapping = << >>
  /\ text = << >>
  /\ n = 1
  /\ pc = "read"
  /\ result = << >>

Init ==
  /\ query \in Documents
  /\ run = 1
  /\ Fresh

\* the dict after fragment_mapping[name] = body
Assign(mapping, name, body) ==
  [k \in DOMAIN mapping \cup {name} |->
     IF k = name THEN body ELSE mapping[k]]

\* line 84
FindFragmentNames ==
  /\ pc = "read"
  /\ fragment_names' = find_fragment_names(query)
  /\ pc' = "mapping"
  /\ n' = 1
  /\ UNCHANGED <<query, keys, fragment_mapping, text, result, run>>

\* lines 86-88, one iteration
CreateMappingStep ==
  /\ pc = "mapping"
  /\ n <= Len(fragment_names)
  /\ LET curr_fragment_name == fragment_names[n]
     IN  IF get_fragment_and_body_indices(curr_fragment_name, query).raised
         THEN /\ pc' = "raised"
              /\ UNCHANGED <<keys, fragment_mapping, n>>
         ELSE /\ fragment_mapping' =
                   Assign(fragment_mapping, curr_fragment_name,
                          get_fragment_body(curr_fragment_name, query))
              /\ keys' = IF curr_fragment_name \in DOMAIN fragment_mapping
                         THEN keys ELSE Append(keys, curr_fragment_name)
              /\ n' = n + 1
              /\ pc' = pc
  /\ UNCHANGED <<query, fragment_names, text, result, run>>

\* line 89, and the call at line 142
CreateMappingReturn ==
  /\ pc = "mapping"
  /\ n > Len(fragment_names)
  /\ text' = query
  /\ n' = 1
  /\ pc' = "removing"
  /\ UNCHANGED <<query, fragment_names, keys, fragment_mapping, result, run>>

\* lines 94-98, one iteration
RemoveDefinitionStep ==
  /\ pc = "removing"
  /\ n <= Len(keys)
  /\ IF get_fragment_and_body_indices(keys[n], text).raised
     THEN /\ pc' = "raised"
          /\ UNCHANGED <<text, n>>
     ELSE /\ text' = remove_fragment_definition(keys[n], text)
          /\ n' = n + 1
          /\ pc' = pc
  /\ UNCHANGED <<query, fragment_names, keys, fragment_mapping, result, run>>

\* line 99, and line 143
RemoveDefinitionsReturn ==
  /\ pc = "removing"
  /\ n > Len(keys)
  /\ text' = remove_empty_lines(text)
  /\ pc' = "scan"
  /\ UNCHANGED <<query, fragment_names, keys, fragment_mapping, n, result,
                 run>>

\* lines 120-124: the scan that finds reference tokens and starts a pass
ScanFindsReferences ==
  /\ pc = "scan"
  /\ fragment_references_remain(text)
  /\ Len(text) <= MaxTextLen
  /\ n' = 1
  /\ pc' = "replacing"
  /\ UNCHANGED <<query, fragment_names, keys, fragment_mapping, text, result,
                 run>>

\* lines 106-108, one iteration
ReplaceReferencesStep ==
  /\ pc = "replacing"
  /\ n <= Len(keys)
  /\ text' = replace_fragment_references(text, keys[n],
                                         fragment_mapping[keys[n]])
  /\ n' = n + 1
  /\ UNCHANGED <<query, fragment_names, keys, fragment_mapping, pc, result,
                 run>>

\* line 109: the pass is over, back to the scan of line 120
ReplaceReferencesReturn ==
  /\ pc = "replacing"
  /\ n > Len(keys)
  /\ pc' = "scan"
  /\ UNCHANGED <<query, fragment_names, keys, fragment_mapping, text, n,
                 result, run>>

\* lines 120-123 and 127, then lines 148-150: the scan that finds no
\* reference token ends the loop and the run returns
ScanFindsNone ==
  /\ pc = "scan"
  /\ ~fragment_references_remain(text)
  /\ result' = Strip(remove_empty_lines(text))
  /\ pc' = "done"
  /\ UNCHANGED <<query, fragment_names, keys, fragment_mapping, text, n, run>>

\* remove_fragments_from_query is called on the file main wrote
RunOnOutput ==
  /\ pc = "done"
  /\ run = 1
  /\ query' = result
  /\ run' = 2
  /\ fragment_names' = << >>
  /\ keys' = << >>
  /\ fragment_mapping' = << >>
  /\ text' = << >>
  /\ n' = 1
  /\ pc' = "read"
  /\ result' = << >>

Next ==
  \/ FindFragmentNames
  \/ CreateMappingStep
  \/ CreateMappingReturn
  \/ RemoveDefinitionStep
  \/ RemoveDefinitionsReturn
  \/ ScanFindsReferences
  \/ ReplaceReferencesStep
  \/ ReplaceReferencesReturn
  \/ ScanFindsNone
  \/ RunOnOutput

Spec ==
  Init /\ [][Next]_vars

(***************************************************************************)
(* What the properties speak about: the fragment definitions and the       *)
(* fragment references of a text, read off the text itself and not off the *)
(* indices the program computes.                                           *)
(***************************************************************************)
RECURSIVE WordRunEnd(_, _)
\* the offset one past the identifier that starts at i
WordRunEnd(s, i) ==
  IF i < Len(s) /\ At(s, i) \in WordChar THEN WordRunEnd(s, i + 1) ELSE i

\* the offset one past the name of the definition whose keyword is at d
NameEnd(s, d) ==
  WordRunEnd(s, d + Len(KwFragment))

\* the offsets of the keyword of every `fragment <identifier> on`
DefinitionOffsets(s) ==
  {d \in 0..(Len(s) - 1) :
     /\ MatchAt(s, KwFragment, d)
     /\ NameEnd(s, d) > d + Len(KwFragment)
     /\ MatchAt(s, LookaheadOn, NameEnd(s, d))}

DefinedName(s, d) ==
  Slice(s, d + Len(KwFragment), NameEnd(s, d))

DefinedNames(s) ==
  {DefinedName(s, d) : d \in DefinitionOffsets(s)}

\* no two definitions of the text have the same name
DistinctNames(s) ==
  \A d1, d2 \in DefinitionOffsets(s) :
     DefinedName(s, d1) = DefinedName(s, d2) => d1 = d2

\* the number of characters c among s[a], ..., s[b]
CountChar(s, a, b, c) ==
  Cardinality({k \in a..b : At(s, k) = c})

\* the offset of the first "{" at or after offset d, or -1
OpeningBrace(s, d) ==
  LET opens == {k \in d..(Len(s) - 1) : At(s, k) = "{"}
  IN  IF d < 0 \/ opens = {} THEN -1
      ELSE CHOOSE k \in opens : \A j \in opens : k <= j

\* the offset of the "}" that closes the brace at offset open: the first
\* offset at which as many braces are closed as were opened; -1 when the
\* depth never returns to zero before the end of the text
ClosingBraceOf(s, open) ==
  LET closes == {j \in (open + 1)..(Len(s) - 1) :
                   CountChar(s, open, j, "{") = CountChar(s, open, j, "}")}
  IN  IF open = -1 \/ closes = {} THEN -1
      ELSE CHOOSE j \in closes : \A k \in closes : j <= k

ClosingBrace(s, d) ==
  ClosingBraceOf(s, OpeningBrace(s, d))

\* the definition at d opens a brace that is closed
Closed(s, d) ==
  ClosingBrace(s, d) # -1

\* offset i lies in the definition at d, keyword to closing brace inclusive
InDefinition(s, d, i) ==
  Closed(s, d) /\ d <= i /\ i <= ClosingBrace(s, d)

\* `... on Type { <body> }` for the definition `fragment F on Type { <body> }`
\* at d
InlineForm(s, d) ==
  Dots \o Slice(s, NameEnd(s, d), ClosingBrace(s, d) + 1)

\* the offsets of every `...` immediately followed by an identifier
ReferenceOffsets(s) ==
  {i \in 0..(Len(s) - 1) :
     /\ MatchAt(s, Dots, i)
     /\ i + Len(Dots) < Len(s)
     /\ At(s, i + Len(Dots)) \in WordChar}

ReferencedName(s, i) ==
  Slice(s, i + Len(Dots), WordRunEnd(s, i + Len(Dots)))

\* the offsets of the references `...name` that end at a word boundary
BoundaryReferences(s, name) ==
  {i \in ReferenceOffsets(s) : ReferencedName(s, i) = name}

\* the offsets of the references to a longer identifier that starts with name
LongerReferences(s, name) ==
  {i \in ReferenceOffsets(s) :
     /\ MatchAt(s, Dots \o name, i)
     /\ ReferencedName(s, i) # name}

\* t occurs in s
Contains(s, t) ==
  \E i \in 0..(Len(s) - Len(t)) : MatchAt(s, t, i)

RECURSIVE Splice(_, _, _, _)
\* s with the Len(Dots) + Len(name) characters at each of the offsets
\* replaced by body, and every other character kept
Splice(s, offsets, name, body) ==
  IF offsets = {} THEN s
  ELSE LET i == CHOOSE k \in offsets : \A j \in offsets : j <= k
       IN  Splice(SliceTo(s, i), offsets \ {i}, name, body)
             \o body \o SliceFrom(s, i + Len(Dots) + Len(name))

\* the names that the body of the definition at d references
ReferencesOf(s, d) ==
  {ReferencedName(s, i) :
     i \in {r \in ReferenceOffsets(s) :
              InDefinition(s, d, r) /\ r > OpeningBrace(s, d)}}

RECURSIVE ReachableNames(_, _, _)
\* the names reachable from the names in from along at most k references
ReachableNames(s, from, k) ==
  IF k = 0 THEN from
  ELSE ReachableNames(s,
         from \cup UNION {ReferencesOf(s, d) :
                            d \in {e \in DefinitionOffsets(s) :
                                     DefinedName(s, e) \in from}},
         k - 1)

\* no fragment of the text references itself, directly or transitively
Acyclic(s) ==
  \A d \in DefinitionOffsets(s) :
     DefinedName(s, d) \notin
       ReachableNames(s, ReferencesOf(s, d), Cardinality(DefinitionOffsets(s)))

\* every definition is closed, every reference names a declared fragment,
\* and the reference graph has no cycle
WellFormed(s) ==
  /\ \A d \in DefinitionOffsets(s) : Closed(s, d)
  /\ DistinctNames(s)
  /\ \A i \in ReferenceOffsets(s) : ReferencedName(s, i) \in DefinedNames(s)
  /\ Acyclic(s)

(***************************************************************************)
(* Properties of the fragment table and of the definition stripper.        *)
(***************************************************************************)
\* the table entry section 4.2 gives the definition at d: `... on Type
\* { <body> }` when " on " stands between the keyword and the opening brace,
\* the text between the braces otherwise
ExpectedEntry(s, d) ==
  LET open == OpeningBrace(s, d)
      on   == Find(s, SpacedOn, d, open + 1)
  IN  IF on # -1
      THEN DotsSpace \o Slice(s, on + 1, ClosingBrace(s, d) + 1)
      ELSE Slice(s, open + 1, ClosingBrace(s, d))

\* every definition of the text is closed, has a name of its own and is in
\* the table
AllInTable(s) ==
  /\ DistinctNames(s)
  /\ \A d \in DefinitionOffsets(s) :
        Closed(s, d) /\ DefinedName(s, d) \in DOMAIN fragment_mapping

\* C9: once _create_fragment_mapping has returned for a document with
\* distinct fragment names, the table entry of every declared name N is the
\* body of the definition declared with exactly the name N, also when N is
\* a prefix of another declared name.
C9_EntryIsBodyOfOwnDefinition ==
  (pc = "removing" /\ DistinctNames(query)) =>
     \A d \in DefinitionOffsets(query) :
        (Closed(query, d) /\ DefinedName(query, d) \in DOMAIN fragment_mapping)
          => fragment_mapping[DefinedName(query, d)] = ExpectedEntry(query, d)

\* the closed definitions of the text, as <<keyword offset, offset of the
\* closing brace>>
DefinitionSpans(s) ==
  {<<d, ClosingBrace(s, d)>> : d \in {e \in DefinitionOffsets(s) : Closed(s, e)}}

RECURSIVE OutsideSpans(_, _)
\* the characters of s that lie in none of the spans: the span that ends
\* last is cut out, and the spans before it are cut out of what precedes it
OutsideSpans(s, spans) ==
  IF spans = {} THEN s
  ELSE LET sp == CHOOSE x \in spans : \A y \in spans : y[2] <= x[2]
       IN  OutsideSpans(SliceTo(s, sp[1]),
                        {<<x[1], Min(x[2], sp[1] - 1)>> :
                           x \in {y \in spans : y[1] < sp[1]}})
             \o SliceFrom(s, sp[2] + 1)

\* the text without its definitions, keyword to closing brace inclusive
WithoutDefinitions(s) ==
  OutsideSpans(s, DefinitionSpans(s))

\* C8: when the loop of _remove_fragment_definitions ends, the text is the
\* input text with exactly the characters of each fragment definition
\* removed, keyword to closing brace inclusive; every other character, also
\* the one right after a closing brace, is retained.
C8_OnlyDefinitionsRemoved ==
  (pc = "removing" /\ n > Len(keys) /\ AllInTable(query)) =>
     text = WithoutDefinitions(query)

\* C2: the string remove_fragments_from_query returns contains no
\* `fragment <identifier> on`.
C2_NoLeftoverDefinitions ==
  pc = "done" => DefinitionOffsets(result) = {}

\* C1: for a well-formed document (every reference names a declared
\* fragment, no cycles) the string remove_fragments_from_query returns
\* contains no `...` immediately followed by an identifier.
C1_NoLeftoverReferences ==
  (pc = "done" /\ WellFormed(query)) => ReferenceOffsets(result) = {}

(***************************************************************************)
(* Properties of the reference resolver.                                   *)
(***************************************************************************)
\* the step is one iteration of the loop of
\* _replace_fragment_references_with_fragment_bodies
ReplaceIteration ==
  pc = "replacing" /\ n <= Len(keys) /\ n' = n + 1

\* C3: an iteration that applies the table entry of F, F defined as
\* `fragment F on Type { <body> }`, replaces each reference `...F` by
\* `... on Type { <body> }`, `on Type` and both braces kept.
C3_TypecastShapePreserved ==
  [][ReplaceIteration =>
        \A d \in DefinitionOffsets(query) :
           (DistinctNames(query) /\ Closed(query, d)
              /\ DefinedName(query, d) = keys[n])
             => text' = Splice(text, BoundaryReferences(text, keys[n]),
                               keys[n], InlineForm(query, d))]_vars

\* the definition of the text that declares name
DefinitionOf(s, name) ==
  CHOOSE d \in DefinitionOffsets(s) : DefinedName(s, d) = name

RECURSIVE InlineEach(_, _, _)
\* t with every reference to one of the names replaced by the inline form
\* of the definition of s that declares the name
InlineEach(s, t, names) ==
  IF names = {} THEN t
  ELSE LET name == CHOOSE x \in names : TRUE
       IN  InlineEach(s,
             Splice(t, BoundaryReferences(t, name), name,
                    InlineForm(s, DefinitionOf(s, name))),
             names \ {name})

RECURSIVE FullyInlined(_, _, _)
\* t after k rounds of InlineEach
FullyInlined(s, t, k) ==
  IF k = 0 THEN t
  ELSE FullyInlined(s, InlineEach(s, t, DefinedNames(s)), k - 1)

\* the names referenced outside every definition of the text
MainReferences(s) ==
  {ReferencedName(s, i) :
     i \in {r \in ReferenceOffsets(s) :
              \A d \in DefinitionOffsets(s) : ~InDefinition(s, d, r)}}

\* C4: if fragment B is referenced from the main query and its body
\* references other fragments, the returned string contains the inline form
\* of B with the inline forms of the fragments it references inlined in it,
\* to any depth and in any declaration order.
C4_NestedResolution ==
  (pc = "done" /\ run = 1 /\ WellFormed(query)) =>
     \A d \in DefinitionOffsets(query) :
        (DefinedName(query, d) \in MainReferences(query)
           /\ ReferencesOf(query, d) # {})
          => Contains(result,
                      FullyInlined(query, InlineForm(query, d),
                                   Cardinality(DefinitionOffsets(query))))

\* every reference of the document names a table entry, and no fragment
\* references itself
ResolvableReferences ==
  /\ WellFormed(query)
  /\ \A i \in ReferenceOffsets(query) :
        ReferencedName(query, i) \in DOMAIN fragment_mapping

\* the text references a table entry whose body references that same entry:
\* the scan finds the reference, the pass replaces it by a body that
\* contains it again, and so does every later pass
Unresolvable ==
  \E name \in DOMAIN fragment_mapping :
     /\ name[1] \in Letter
     /\ BoundaryReferences(text, name) # {}
     /\ BoundaryReferences(fragment_mapping[name], name) # {}

\* C5: for a document in which each reference names a table entry and no
\* fragment references itself, the loop of _replace_all_fragment_references
\* eventually makes a scan that finds no reference token, and returns; so
\* no scan of the loop is made on a text that no pass can ever rid of its
\* reference tokens.
C5_ResolverTerminates ==
  (pc = "scan" /\ ResolvableReferences) => ~Unresolvable

\* C10: an iteration that applies the table entry named N replaces every
\* occurrence of `...N` that ends at a word boundary, and leaves every
\* reference `...M`, M a longer identifier that starts with N, in place.
C10_WordBoundarySubstitution ==
  [][ReplaceIteration =>
        LET name    == keys[n]
            body    == fragment_mapping[keys[n]]
            matches == BoundaryReferences(text, keys[n])
            grown   == Len(body) - Len(Dots) - Len(name)
        IN  /\ text' = Splice(text, matches, name, body)
            /\ \A i \in LongerReferences(text, name) :
                  MatchAt(text', Dots \o ReferencedName(text, i),
                          i + grown * Cardinality({j \in matches : j < i}))
       ]_vars

\* the table entry of A has been applied to a text that references both A
\* and the longer name Ab: the reference to A is replaced, the one to Ab
\* is still there
C10_Witness ==
  /\ pc = "replacing"
  /\ n > 1
  /\ keys[n - 1] = <<"A">>
  /\ LongerReferences(text, <<"A">>) # {}
  /\ BoundaryReferences(text, <<"A">>) = {}
  /\ Contains(text, fragment_mapping[<<"A">>])

(***************************************************************************)
(* Properties of the whole run.                                            *)
(***************************************************************************)
\* the text has no fragment definition and no fragment reference
FragmentFree(s) ==
  DefinitionOffsets(s) = {} /\ ReferenceOffsets(s) = {}

RECURSIVE NonBlankLines(_, _)
\* the lines of s from offset i on that are not made of white space only
NonBlankLines(s, i) ==
  LET breaks == {k \in i..(Len(s) - 1) : At(s, k) = "\n"}
      e      == IF breaks = {} THEN Len(s)
                ELSE CHOOSE k \in breaks : \A j \in breaks : k <= j
      line   == Slice(s, i, e)
      rest   == IF e >= Len(s) THEN << >> ELSE NonBlankLines(s, e + 1)
  IN  IF \A k \in 1..Len(line) : line[k] \in Space THEN rest
      ELSE << line >> \o rest

RECURSIVE JoinLines(_)
\* the lines, one line break between two of them
JoinLines(lines) ==
  IF lines = << >> THEN << >>
  ELSE IF Len(lines) = 1 THEN lines[1]
  ELSE lines[1] \o <<"\n">> \o JoinLines(Tail(lines))

\* s without its leading and its trailing white space
Trimmed(s) ==
  LET inked == {k \in 1..Len(s) : s[k] \notin Space}
  IN  IF inked = {} THEN << >>
      ELSE SubSeq(s, CHOOSE k \in inked : \A j \in inked : k <= j,
                     CHOOSE k \in inked : \A j \in inked : j <= k)

\* C6: on a document without fragment definitions and without reference
\* tokens the run returns the input with its blank lines dropped and its
\* ends trimmed, nothing else changed; run on its own output, it returns
\* that output unchanged.
C6_FragmentFreeUnchanged ==
  (pc = "done" /\ FragmentFree(query)) =>
     /\ result = Trimmed(JoinLines(NonBlankLines(query, 0)))
     /\ run = 2 => result = query

\* a run on the fragment-free output of a run that dropped blank lines and
\* trimmed the ends of a fragment-free document
C6_Witness ==
  /\ pc = "done"
  /\ run = 2
  /\ FragmentFree(query)
  /\ query = Trimmed(JoinLines(NonBlankLines(QueryQ \o QueryQ, 0)))
  /\ Len(query) < Len(QueryQ \o QueryQ)
  /\ result = query

\* the brace that the definition located by `fragment <name>` opens is
\* never closed: the depth does not return to zero before the end of text
UnclosedAt(s, name) ==
  LET start == Find(s, KwFragment \o name, 0, Len(s))
  IN  /\ start # -1
      /\ OpeningBrace(s, start) # -1
      /\ ClosingBrace(s, start) = -1

\* a name of fragment_names whose definition is never closed
UnclosedNames ==
  {k \in 1..Len(fragment_names) : UnclosedAt(query, fragment_names[k])}

\* C7: when the brace opened by a fragment definition is never closed
\* before the end of text, the brace scan ends in an error: no span is
\* returned for that name (it gets no table entry), the run goes no further
\* than the table builder, and it returns no string, not a partial one
\* either.
C7_UnclosedBraceAborts ==
  /\ pc = "raised" => result = << >>
  /\ \A k \in UnclosedNames :
        /\ fragment_names[k] \notin DOMAIN fragment_mapping
        /\ pc \in {"mapping", "raised"}
        /\ n <= k
        /\ result = << >>

\* the run has aborted on the scan of a definition that is never closed
C7_Witness ==
  /\ pc = "raised"
  /\ UnclosedNames # {}
  /\ n \in UnclosedNames

====
